---- MODULE Spec2Model ----
(***************************************************************************)
(* Model of src/app.js: the adaptive exam builder (buildExamQuestions,     *)
(* weightedPick, shuffle, shuffleQuestionChoices), the session handlers    *)
(* (startExam, onChoose, the Back/Next buttons, renderResults, the review  *)
(* toggle) and the statistics store (loadStats, saveStats, reset).         *)
(*                                                                         *)
(* Indices are 0-based as in the source; TLA+ sequences are 1-based, so    *)
(* arr[i] of the source is arr[i + 1] here.                                *)
(***************************************************************************)
EXTENDS Integers, Sequences, FiniteSets, TLC

VARIABLES
    QUESTIONS,  \* the imported question bank (app.js:1), fixed during a run
    state,      \* the module-level `state` object (app.js:153-162)
    ls,         \* localStorage item LS_STATS: NoItem or the saved text
    view,       \* what examEl currently shows: which buttons exist
    now,        \* Date.now(), advanced by every reading
    ev,         \* the last handler that ran, and whether it passed its early return
    hist,       \* history variables: the profile at startExam, the highest index reached,
                \* the number of startExam calls, whether the last one left a session open
    ret         \* result of the last direct call of a pure function

vars == <<QUESTIONS, state, ls, view, now, ev, hist, ret>>

----------------------------------------------------------------------------
(* Bounds of the model *)

\* largest value entered in the count field
MaxCount == 2
\* number of startExam and renderResults calls explored in one behaviour
MaxCalls == 3
\* largest bank drawn for the direct calls of buildExamQuestions
MaxBank == 3
\* largest count passed in the direct calls of buildExamQuestions
MaxBuildCount == 4
\* largest number of choices of a question handed to shuffleQuestionChoices
MaxChoices == 3
\* the draw loop's iteration ceiling (app.js:112 sets 5000); scaled so that
\* counts above the ceiling are explored
attemptsLimit == 2

----------------------------------------------------------------------------
(* Values *)

Null == <<>>
NoItem == <<>>
Some(x) == <<x>>

Max2(a, b) == IF a >= b THEN a ELSE b
Min2(a, b) == IF a <= b THEN a ELSE b

Modes == {"exam", "practice"}
Categories == {"network", "hardware"}
Focuses == {"smart", "all"} \cup Categories
\* the focus value entered in the session runs (the default of state.focus);
\* the other values are explored by the direct calls of buildExamQuestions
SessionFocuses == {"smart"}
Counts == 0..MaxCount

DEFAULT_BASELINE ==
    [c \in {"privacy_security", "network", "setup_backup_restore", "apple_account_icloud"} |->
        CASE c = "privacy_security" -> [correct |-> 19, total |-> 22]
          [] c = "network" -> [correct |-> 12, total |-> 14]
          [] c = "setup_backup_restore" -> [correct |-> 14, total |-> 16]
          [] c = "apple_account_icloud" -> [correct |-> 5, total |-> 7]]

\* a question record; difficulty, question text and explanation are only displayed
Question(id, cat, choices, answerIndex) ==
    [id |-> id, category |-> cat, choices |-> choices, answerIndex |-> answerIndex]

\* the bank of the session runs: two categories, one of them absent from the baseline
SessionBank ==
    << Question(1, "network", <<"a", "b">>, 0),
       Question(2, "hardware", <<"a", "b">>, 1) >>

----------------------------------------------------------------------------
(* Helpers of app.js *)

clamp(n, min, max) == Max2(min, Min2(max, n))

\* Math.trunc is the identity on the integers the callers pass
\* mutant: the two limits applied in the wrong order
clampInt_Swapped(n, min, max) == Min2(min, Max2(max, n))

clampInt(n, min, max) == Max2(min, Min2(max, n))

\* the seeded default; structuredClone gives a fresh copy of equal value
DefaultStats == [best |-> Null, history |-> <<>>, perCategory |-> DEFAULT_BASELINE]

\* how a block of code completes: with a value, or with a thrown error
Return(v) == <<"return", v>>
Throw(e) == <<"throw", e>>

\* the stored item is NoItem, <<"json", o>> for the text of the object o (its
\* fields integers, strings, null, arrays and objects), or <<"text", t>> for
\* any other text t
JSONstringify(stats) == <<"json", stats>>

\* texts that are JSON of a primitive: a number, a boolean, a string
PrimitiveTexts == {"5", "true", "\"x\""}

\* JSON.parse: an object, null or a primitive, or a SyntaxError
JSONparse(raw) ==
    IF raw[1] = "json" THEN Return(<<"object", raw[2]>>)
    ELSE IF raw[2] = "null" THEN Return(<<"null", <<>> >>)
    ELSE IF raw[2] \in PrimitiveTexts THEN Return(<<"primitive", raw[2]>>)
    ELSE Throw("SyntaxError")

\* the three `??=` lines. Reading a property of null throws; app.js is a module,
\* hence strict code, where assigning a property of a primitive throws
backfill(parsed) ==
    IF parsed[1] \in {"null", "primitive"} THEN Throw("TypeError")
    ELSE LET o == parsed[2]
         IN  Return([best |-> IF "best" \in DOMAIN o THEN o.best ELSE Null,
                     history |-> IF "history" \in DOMAIN o THEN o.history ELSE <<>>,
                     perCategory |-> IF "perCategory" \in DOMAIN o
                                     THEN o.perCategory ELSE DEFAULT_BASELINE])

tryBlock(raw) ==
    LET parsed == JSONparse(raw)
    IN  IF parsed[1] = "throw" THEN parsed ELSE backfill(parsed[2])

\* mutant: the error is passed on to the caller
catchBlock_Rethrow(c) == c

catchBlock(c) == IF c[1] = "throw" THEN Return(DefaultStats) ELSE c

\* !raw: no item, or the empty text
isFalsy(raw) == raw = NoItem \/ (raw[1] = "text" /\ raw[2] = "")

\* how a call of loadStats completes
loadStatsCall(raw) ==
    IF isFalsy(raw) THEN Return(DefaultStats) ELSE catchBlock(tryBlock(raw))

\* the value loadStats returns
loadStats(raw) == loadStatsCall(raw)[2]

saveStats(stats) == JSONstringify(stats)

\* shuffle: the arrays Fisher-Yates can return, one per choice of the random j's
RECURSIVE ShuffleFrom(_, _)
ShuffleFrom(a, i) ==
    IF i > 0
    THEN UNION { ShuffleFrom([a EXCEPT ![i + 1] = a[j + 1], ![j + 1] = a[i + 1]], i - 1) : j \in 0..i }
    ELSE {a}

shuffle(arr) == ShuffleFrom(arr, Len(arr) - 1)

\* Array.prototype.findIndex over a predicate given as the set of matching positions
findIndex(hits) == IF hits = {} THEN -1 ELSE (CHOOSE k \in hits : \A m \in hits : k <= m) - 1

\* mutant: the choices are shuffled but answerIndex is not remapped
shuffleQuestionChoices_KeepIndex(q) ==
    LET indexed == [k \in 1..Len(q.choices) |-> [text |-> q.choices[k], idx |-> k - 1]]
    IN  { [q EXCEPT !.choices = [k \in 1..Len(shuffled) |-> shuffled[k].text]]
          : shuffled \in shuffle(indexed) }

shuffleQuestionChoices(q) ==
    LET indexed == [k \in 1..Len(q.choices) |-> [text |-> q.choices[k], idx |-> k - 1]]
    IN  { [q EXCEPT !.choices = [k \in 1..Len(shuffled) |-> shuffled[k].text],
                    !.answerIndex = findIndex({k \in 1..Len(shuffled) : shuffled[k].idx = q.answerIndex})]
          : shuffled \in shuffle(indexed) }

\* a real number as a fraction num/den, den > 0
Frac(n, d) == [num |-> n, den |-> d]

\* mutant: the weight rises with the ratio, 0.8 + ratio
weightOf_Rising(v) ==
    IF v.total > 0
    THEN Frac(clamp(8 * v.total + 10 * v.correct, 6 * v.total, 16 * v.total), 10 * v.total)
    ELSE Frac(clamp(8 + 5, 6, 16), 10)

\* weights[cat] = clamp(1.8 - ratio, 0.6, 1.6), ratio = correct/total or 0.5
weightOf(v) ==
    IF v.total > 0
    THEN Frac(clamp(18 * v.total - 10 * v.correct, 6 * v.total, 16 * v.total), 10 * v.total)
    ELSE Frac(clamp(18 - 5, 6, 16), 10)

\* Math.max(0.0001, Number(w) || 1)
pickWeight(w) ==
    IF w.num = 0 THEN Frac(1, 1)
    ELSE IF w.num * 10000 < w.den THEN Frac(1, 10000) ELSE w

\* weightedPick: the items Math.random() can select, those of positive weight;
\* weightFn is the callback, as a function of the item
weightedPick(items, weightFn) ==
    { items[i] : i \in { k \in DOMAIN items : pickWeight(weightFn[items[k]]).num > 0 } }

----------------------------------------------------------------------------
(* Weighted exam builder, app.js:86-140 *)

\* pool.filter(q => q.category === focus) for a forced category
focusPool(focus) ==
    IF focus # "smart" /\ focus # "all"
    THEN SelectSeq(QUESTIONS, LAMBDA q : q.category = focus)
    ELSE QUESTIONS

\* mutant: a pool of exactly count questions is widened too
widenPool_AtMost(pool, count) == IF Len(pool) <= count THEN QUESTIONS ELSE pool

\* a pool smaller than count is replaced by the full bank
widenPool(pool, count) == IF Len(pool) < count THEN QUESTIONS ELSE pool

categoryWeights(stats) == [cat \in DOMAIN stats.perCategory |-> weightOf(stats.perCategory[cat])]

\* pool.filter(q => !usedIds.has(q.id))
unusedOf(pool, usedIds) == SelectSeq(pool, LAMBDA q : q.id \notin usedIds)

\* the draw loop: every [picked, usedIds] it can end with
RECURSIVE drawLoop(_, _, _, _, _, _, _)
drawLoop(pool, count, focus, weights, picked, usedIds, attempts) ==
    IF Len(picked) < count /\ attempts < attemptsLimit
    THEN LET candidates == unusedOf(pool, usedIds)
         IN  IF Len(candidates) = 0
             THEN {[picked |-> picked, usedIds |-> usedIds]}
             ELSE UNION { drawLoop(pool, count, focus, weights,
                                   Append(picked, q), usedIds \cup {q.id}, attempts + 1)
                          : q \in weightedPick(candidates,
                                     [item \in {candidates[k] : k \in DOMAIN candidates} |->
                                         IF focus = "smart"
                                         THEN IF item.category \in DOMAIN weights
                                              THEN weights[item.category]
                                              ELSE Frac(1, 1)
                                         ELSE Frac(1, 1)]) }
    ELSE {[picked |-> picked, usedIds |-> usedIds]}

\* mutant: the fill step takes from the pool without excluding the used ids
fillRemainder_NoFilter(pool, count, picked, usedIds) ==
    IF Len(picked) < count
    THEN picked \o SubSeq(pool, 1, Min2(count - Len(picked), Len(pool)))
    ELSE picked

\* mutant: no fill step
fillRemainder_None(pool, count, picked, usedIds) == picked

\* if still short, fill from the remaining pool in bank order
fillRemainder(pool, count, picked, usedIds) ==
    IF Len(picked) < count
    THEN LET remaining == unusedOf(pool, usedIds)
         IN  picked \o SubSeq(remaining, 1, Min2(count - Len(picked), Len(remaining)))
    ELSE picked

\* picked.map(q => shuffleQuestionChoices(q)): every outcome
RECURSIVE mapShuffle(_)
mapShuffle(picked) ==
    IF picked = <<>> THEN {<<>>}
    ELSE { <<h>> \o t : h \in shuffleQuestionChoices(Head(picked)), t \in mapShuffle(Tail(picked)) }

\* the drawn questions before their choices are shuffled
pickQuestions(count, focus, stats) ==
    LET pool == widenPool(focusPool(focus), count)
    IN  { fillRemainder(pool, count, d.picked, d.usedIds)
          : d \in drawLoop(pool, count, focus, categoryWeights(stats), <<>>, {}, 0) }

buildExamQuestions(count, focus, stats) ==
    UNION { mapShuffle(picked) : picked \in pickQuestions(count, focus, stats) }

----------------------------------------------------------------------------
(* Session handlers, app.js:171-460 and 518-540 *)

Event(h, ok) == [h |-> h, ok |-> ok]

\* state.questions[state.index] is defined
hasQuestion(s) == s.index + 1 \in DOMAIN s.questions
currentQ(s) == s.questions[s.index + 1]

\* state.answers.some(a => a.id === q.id)
isAnswered(s, q) == \E k \in DOMAIN s.answers : s.answers[k].id = q.id

\* state.answers.reduce((acc, a) => acc + (a.correct ? 1 : 0), 0)
correctCount(answers) == Cardinality({k \in DOMAIN answers : answers[k].correct})

\* mutant: total is incremented only for a wrong answer
RECURSIVE recordAnswers_ElseTotal(_, _)
recordAnswers_ElseTotal(perCategory, answers) ==
    IF answers = <<>> THEN perCategory
    ELSE LET a == Head(answers)
             pc0 == IF a.category \in DOMAIN perCategory
                    THEN perCategory
                    ELSE (a.category :> [correct |-> 0, total |-> 0]) @@ perCategory
             pc1 == [pc0 EXCEPT ![a.category].total = IF a.correct THEN @ ELSE @ + 1,
                                ![a.category].correct = IF a.correct THEN @ + 1 ELSE @]
         IN  recordAnswers_ElseTotal(pc1, Tail(answers))

\* the per-category loop of renderResults, app.js:348-355
RECURSIVE recordAnswers(_, _)
recordAnswers(perCategory, answers) ==
    IF answers = <<>> THEN perCategory
    ELSE LET a == Head(answers)
             pc0 == IF a.category \in DOMAIN perCategory
                    THEN perCategory
                    ELSE (a.category :> [correct |-> 0, total |-> 0]) @@ perCategory
             pc1 == [pc0 EXCEPT ![a.category].total = @ + 1,
                                ![a.category].correct = IF a.correct THEN @ + 1 ELSE @]
         IN  recordAnswers(pc1, Tail(answers))

\* mutant: every result replaces the best
isBetter_Always(best, score, total) == TRUE

\* mutant: the tie-break on the larger total is left out
isBetter_ScoreOnly(best, score, total) ==
    \/ best = Null
    \/ score > best[1].score

\* the best-score test of renderResults, app.js:343
isBetter(best, score, total) ==
    \/ best = Null
    \/ score > best[1].score
    \/ (score = best[1].score /\ total > best[1].total)

\* the stats object renderResults leaves, app.js:327-355
resultStats(s, ts) ==
    LET total == s.total
        safeCorrect == clampInt(correctCount(s.answers), 0, total)
        attempt == [ts |-> ts, score |-> safeCorrect, total |-> total,
                    mode |-> s.mode, focus |-> s.focus]
    IN  [best |-> IF isBetter(s.stats.best, safeCorrect, total)
                  THEN Some([score |-> safeCorrect, total |-> total])
                  ELSE s.stats.best,
         history |-> Append(s.stats.history, attempt),
         perCategory |-> recordAnswers(s.stats.perCategory, s.answers)]

\* renderResults: finalize, save, show the results card
renderResults(s) ==
    /\ hist.started + now < MaxCalls
    /\ LET stats == resultStats(s, now)
       IN  /\ state' = [s EXCEPT !.stats = stats]
           /\ ls' = saveStats(stats)
    /\ now' = now + 1
    /\ view' = "results"

\* renderQuestion: the question card, or the results when the index is past the end
renderQuestion(s) ==
    IF hasQuestion(s)
    THEN /\ state' = s
         /\ view' = "question"
         /\ UNCHANGED <<ls, now>>
    ELSE renderResults(s)

\* the state startExam hands to renderQuestion, app.js:172-184
startedState(m, c, f, qs) ==
    [state EXCEPT !.mode = m, !.total = c, !.focus = f, !.questions = qs,
                  !.index = 0, !.answers = <<>>, !.locked = FALSE]

\* Start, Start New Exam and New Exam buttons
startExam ==
    /\ hist.started + now < MaxCalls
    /\ \E m \in Modes, c \in Counts, f \in SessionFocuses :
         \E qs \in buildExamQuestions(c, f, state.stats) :
           /\ renderQuestion(startedState(m, c, f, qs))
           /\ hist' = [maxIndex |-> 0, stats |-> state.stats, started |-> hist.started + 1,
                       abandoned |-> (view = "question")]
           /\ ev' = Event("startExam", TRUE)
           /\ UNCHANGED <<QUESTIONS, ret>>

answerOf(q, chosenIndex) ==
    [id |-> q.id, chosenIndex |-> chosenIndex,
     correct |-> (chosenIndex = q.answerIndex), category |-> q.category]

\* mutant: no guard against answering the same question again
chosenState_NoGuard(s, chosenIndex) ==
    IF ~hasQuestion(s) THEN s
    ELSE [s EXCEPT !.answers = Append(@, answerOf(currentQ(s), chosenIndex))]

\* mutant: the answer is folded into the profile as soon as it is given
chosenState_RecordsNow(s, chosenIndex) ==
    IF ~hasQuestion(s) THEN s
    ELSE LET q == currentQ(s)
         IN  IF isAnswered(s, q) THEN s
             ELSE [s EXCEPT !.answers = Append(@, answerOf(q, chosenIndex)),
                            !.stats.perCategory = recordAnswers(@, <<answerOf(q, chosenIndex)>>)]

\* the state onChoose hands to renderQuestion, or the state itself when it returns early
chosenState(s, chosenIndex) ==
    IF ~hasQuestion(s) THEN s
    ELSE LET q == currentQ(s)
         IN  IF isAnswered(s, q) THEN s
             ELSE [s EXCEPT !.answers = Append(@, answerOf(q, chosenIndex))]

\* a click on a choice button of the question card
onChoose ==
    /\ view = "question"
    /\ \E chosenIndex \in 0..(Len(currentQ(state).choices) - 1) :
         /\ state' = chosenState(state, chosenIndex)
         /\ ev' = Event("onChoose", state' # state)
         /\ UNCHANGED <<QUESTIONS, ls, view, now, hist, ret>>

\* the Back button of the question card
\* mutant: the index is decremented without the floor
backIndex_NoFloor(s) == s.index - 1

\* Math.max(0, state.index - 1)
backIndex(s) == Max2(0, s.index - 1)

backBtn ==
    /\ view = "question"
    /\ renderQuestion([state EXCEPT !.index = backIndex(state)])
    /\ ev' = Event("back", TRUE)
    /\ UNCHANGED <<QUESTIONS, hist, ret>>

\* mutant: the mode test is inverted
nextBlocked_Practice(s) == s.mode = "practice" /\ ~isAnswered(s, currentQ(s))

\* mutant: Next is never refused
nextBlocked_Never(s) == FALSE

\* mutant: the answer is required in both modes
nextBlocked_AnyMode(s) == ~isAnswered(s, currentQ(s))

\* Next is refused in exam mode while the shown question has no answer
nextBlocked(s) == s.mode = "exam" /\ ~isAnswered(s, currentQ(s))

\* the Next / Finish button of the question card
nextBtn ==
    /\ view = "question"
    /\ IF nextBlocked(state)
       THEN /\ ev' = Event("next", FALSE)
            /\ UNCHANGED <<state, ls, view, now, hist>>
       ELSE /\ renderQuestion([state EXCEPT !.index = @ + 1])
            /\ ev' = Event("next", TRUE)
            /\ hist' = [hist EXCEPT !.maxIndex = Max2(@, state.index + 1)]
    /\ UNCHANGED <<QUESTIONS, ret>>

\* Review Answers on the results card
reviewBtn ==
    /\ view = "results"
    /\ state' = [state EXCEPT !.index = 0]
    /\ view' = "review"
    /\ ev' = Event("review", TRUE)
    /\ UNCHANGED <<QUESTIONS, ls, now, hist, ret>>

\* Back on the review card: its listener is renderResults itself
backToResultsBtn ==
    /\ view = "review"
    /\ renderResults(state)
    /\ ev' = Event("backToResults", TRUE)
    /\ UNCHANGED <<QUESTIONS, hist, ret>>

\* Reset stats
\* mutant: the stored item survives the removal
removeItem_Keep(item) == item

\* localStorage.removeItem(LS_STATS): the item is gone
removeItem(item) == NoItem

\* Reset Stats: clear the store, reload the profile, show the empty card
resetStatsBtn ==
    /\ ls' = removeItem(ls)
    /\ state' = [state EXCEPT !.stats = loadStats(ls')]
    /\ view' = "empty"
    /\ ev' = Event("resetStats", TRUE)
    /\ UNCHANGED <<QUESTIONS, now, hist, ret>>

NoRet == [fn |-> "none", count |-> 0, focus |-> "all", stats |-> <<>>, q |-> <<>>, out |-> <<>>]

\* the module-level state after boot() with nothing stored
Init ==
    /\ QUESTIONS = SessionBank
    /\ ls = NoItem
    /\ state = [mode |-> "exam", focus |-> "smart", total |-> 17, questions |-> <<>>,
                index |-> 0, answers |-> <<>>, locked |-> FALSE, stats |-> loadStats(NoItem)]
    /\ view = "empty"
    /\ now = 0
    /\ hist = [maxIndex |-> 0, stats |-> loadStats(NoItem), started |-> 0, abandoned |-> FALSE]
    /\ ev = Event("boot", TRUE)
    /\ ret = NoRet

Next ==
    \/ startExam
    \/ onChoose
    \/ backBtn
    \/ nextBtn
    \/ reviewBtn
    \/ backToResultsBtn
    \/ resetStatsBtn

Spec == Init /\ [][Next]_vars

----------------------------------------------------------------------------
(* Claims about the session handlers, checked under Spec *)

Last(seq) == seq[Len(seq)]

\* number of answers of a category, and of correct ones
answersIn(answers, cat) == Cardinality({k \in DOMAIN answers : answers[k].category = cat})
correctIn(answers, cat) ==
    Cardinality({k \in DOMAIN answers : answers[k].category = cat /\ answers[k].correct})

\* a results or review card of the current session is shown
Finished == view \in {"results", "review"}

\* C1: while the results or the review of a session is shown, whatever toggles
\* were made, history holds exactly one Attempt more than at startExam and the
\* per-category counts have grown by exactly this session's answers
C1_FinalizedOnce ==
    Finished =>
        /\ Len(state.stats.history) = Len(hist.stats.history) + 1
        /\ state.stats.perCategory = recordAnswers(hist.stats.perCategory, state.answers)

\* at most one Answer per question id
OneAnswerPerQuestion ==
    \A i, j \in DOMAIN state.answers :
        state.answers[i].id = state.answers[j].id => i = j

\* C2: answers never hold two Answers for one question id, and a select on a
\* question that already has an Answer changes neither answers nor index (nor
\* anything else of the session), in both modes and after any navigation
C2_ReAnswerGuard ==
    /\ []OneAnswerPerQuestion
    /\ [][(onChoose /\ isAnswered(state, currentQ(state))) => UNCHANGED state]_vars

\* a select was refused on a question the user had navigated back to
C2_Witness ==
    /\ ev = Event("onChoose", FALSE)
    /\ view = "question"
    /\ state.index < hist.maxIndex
    /\ state.mode = "practice"
    /\ Len(state.answers) = 1

\* C3: in exam mode a next on a question without Answer changes neither the
\* index, the answers nor the profile, nor the stored blob
C3_ExamGating ==
    [][(nextBtn /\ state.mode = "exam" /\ ~isAnswered(state, currentQ(state)))
        => UNCHANGED <<state, ls, view>>]_vars

\* a next was refused in exam mode on the second question
C3_Witness ==
    /\ ev = Event("next", FALSE)
    /\ state.mode = "exam"
    /\ state.index = 1
    /\ view = "question"

\* the question at 0-based position i of the session has an Answer
answeredAt(i) == isAnswered(state, state.questions[i + 1])

\* C4: in exam mode every question before the highest index reached has an
\* Answer, and the results are reached only with as many Answers as questions
C4_AnswerBeforeAdvance ==
    state.mode = "exam" =>
        /\ \A i \in 0..(hist.maxIndex - 1) : answeredAt(i)
        /\ Finished => Len(state.answers) = Len(state.questions)

\* an exam of two questions, both answered, reached its results
C4_Witness ==
    /\ state.mode = "exam"
    /\ view = "results"
    /\ Len(state.questions) = 2
    /\ hist.maxIndex = 2
    /\ Len(state.answers) = 2

\* the step ran the named handler (every handler records itself in ev)
Ran(h) == ev'.h = h

\* the step is one of startExam, select, back, next
SessionStep == Ran("startExam") \/ Ran("onChoose") \/ Ran("back") \/ Ran("next")

\* C5 as stated: startExam, select, back and next (other than the next that
\* leaves the last question) leave the profile and the stored blob unchanged
C5_ProfileFrame_AsClaimed ==
    [][(Ran("startExam") \/ Ran("onChoose") \/ Ran("back") \/ (Ran("next") /\ view' = "question"))
        => UNCHANGED <<state.stats, ls>>]_vars

\* C5 amended: startExam, select, back and next leave the profile and the
\* stored blob unchanged unless the step itself ends the session, i.e. shows
\* the results: a next from the last question, or a startExam whose built
\* question list is empty
C5_ProfileFrame ==
    [][(SessionStep /\ view' # "results") => UNCHANGED <<state.stats, ls>>]_vars

\* a second startExam abandoned a session in progress; the profile is as it was
C5_Witness ==
    /\ ev = Event("startExam", TRUE)
    /\ hist.abandoned
    /\ hist.started = 2
    /\ view = "question"
    /\ state.answers = <<>>
    /\ state.stats = hist.stats

\* C6: in a session started with a positive count the number of correct
\* answers lies in 0..total, and the Attempt recorded at the results holds
\* exactly that number as its score
C6_ScoreBound ==
    (hist.started > 0 /\ state.total > 0) =>
        /\ correctCount(state.answers) \in 0..state.total
        /\ view = "results" =>
              /\ Last(state.stats.history).score = correctCount(state.answers)
              /\ Last(state.stats.history).score \in 0..Last(state.stats.history).total

\* a session of two questions was finalized with both answered correctly
C6_Witness ==
    /\ view = "results"
    /\ state.total = 2
    /\ correctCount(state.answers) = 2
    /\ Last(state.stats.history).score = 2


\* every CategoryStat of the profile has natural counts with correct <= total
StatsWellFormed ==
    \A cat \in DOMAIN state.stats.perCategory :
        LET v == state.stats.perCategory[cat]
        IN  v.correct \in Nat /\ v.total \in Nat /\ v.correct <= v.total

\* the step called renderResults (each call reads the clock once)
Finalizes == now' = now + 1

\* the stat of a category before the step, zero/zero when the profile has none
statBefore(cat) ==
    IF cat \in DOMAIN state.stats.perCategory
    THEN state.stats.perCategory[cat]
    ELSE [correct |-> 0, total |-> 0]

\* C13: from the seeded profile, through any sessions, review toggles and
\* resets, every category keeps 0 <= correct <= total; a finalization adds 1 to
\* the total of its category for each answer and 1 to correct for each correct
\* one, creating an absent category at zero/zero first
C13_CategoryStat ==
    /\ []StatsWellFormed
    /\ [][Finalizes =>
            /\ DOMAIN state'.stats.perCategory =
                  DOMAIN state.stats.perCategory
                      \cup {state'.answers[k].category : k \in DOMAIN state'.answers}
            /\ \A cat \in DOMAIN state'.stats.perCategory :
                  /\ state'.stats.perCategory[cat].total =
                        statBefore(cat).total + answersIn(state'.answers, cat)
                  /\ state'.stats.perCategory[cat].correct =
                        statBefore(cat).correct + correctIn(state'.answers, cat)]_vars

\* a category absent from the baseline was created by one wrong answer, next
\* to a category of the baseline that gained a correct one
C13_Witness ==
    /\ view = "results"
    /\ "hardware" \in DOMAIN state.stats.perCategory
    /\ state.stats.perCategory["hardware"] = [correct |-> 0, total |-> 1]
    /\ state.stats.perCategory["network"] = [correct |-> 13, total |-> 15]

\* questions of the session that have an Answer, of a category, and those answered right
answeredQs(cat) ==
    {k \in DOMAIN state.questions :
        state.questions[k].category = cat /\ isAnswered(state, state.questions[k])}
rightQs ==
    {k \in DOMAIN state.questions :
        \E a \in DOMAIN state.answers :
            state.answers[a].id = state.questions[k].id /\ state.answers[a].correct}

\* C14: in practice mode a next on a question without Answer moves the index
\* on by one and leaves answers as they are; and when a next ends the session
\* the score counts, and each category of the profile gains, only the
\* questions that were answered
C14_PracticeSkipping ==
    /\ [][(Ran("next") /\ state.mode = "practice" /\ ~isAnswered(state, currentQ(state)))
            => (state'.index = state.index + 1 /\ state'.answers = state.answers)]_vars
    /\ [][(Ran("next") /\ Finalizes) =>
            /\ Last(state'.stats.history).score = Cardinality(rightQs)
            /\ \A cat \in DOMAIN state'.stats.perCategory :
                  state'.stats.perCategory[cat].total
                      = statBefore(cat).total + Cardinality(answeredQs(cat))]_vars

\* a practice session of two questions reached its results with none answered:
\* score 0 and the profile as it was at startExam
C14_Witness ==
    /\ ev = Event("next", TRUE)
    /\ state.mode = "practice"
    /\ view = "results"
    /\ Len(state.questions) = 2
    /\ state.answers = <<>>
    /\ Last(state.stats.history).score = 0
    /\ state.stats.perCategory = hist.stats.perCategory

\* C17: the index stays within 0..len(questions), and below len(questions)
\* while a question is shown; back at index 0 leaves it at 0; a step of
\* startExam, select, back or next ends on the results exactly when it leaves
\* the index at len(questions), which only a next from the last question or a
\* startExam with an empty list does; and while the results or the review is
\* shown no select, back or next occurs
C17_IndexBounds ==
    /\ [](/\ 0 <= state.index /\ state.index <= Len(state.questions)
          /\ view = "question" => state.index < Len(state.questions))
    /\ [][(Ran("back") /\ state.index = 0) => state'.index = 0]_vars
    /\ [][SessionStep =>
            /\ (view' = "results") <=> (state'.index = Len(state'.questions))
            /\ view' = "results" =>
                  \/ Ran("next") /\ state.index = Len(state.questions) - 1
                  \/ Ran("startExam") /\ state'.questions = <<>>]_vars
    /\ [][Finished => ~(Ran("onChoose") \/ Ran("back") \/ Ran("next"))]_vars

\* back was pressed on the first question and the index stayed 0
C17_Witness ==
    /\ ev = Event("back", TRUE)
    /\ view = "question"
    /\ state.index = 0
    /\ hist.maxIndex = 0
    /\ Len(state.questions) = 2

\* the highest score of a non-empty history, and the largest total among the
\* Attempts that reached it
maxScore(history) ==
    CHOOSE m \in {history[k].score : k \in DOMAIN history} :
        \A k \in DOMAIN history : history[k].score <= m
maxTotalAt(history, score) ==
    CHOOSE t \in {history[k].total : k \in {i \in DOMAIN history : history[i].score = score}} :
        \A k \in DOMAIN history : history[k].score = score => history[k].total <= t

----------------------------------------------------------------------------
(* Direct calls of the pure functions, over bounded inputs *)

\* banks with pairwise-distinct ids: question k has id k
Banks ==
    UNION { { [k \in 1..n |-> Question(k, cats[k], <<"a", "b">>, 0)] : cats \in [1..n -> Categories] }
            : n \in 0..MaxBank }

BuildCounts == -1..MaxBuildCount

\* profiles: the seeded one, one without history, one with a category never answered right
Profiles ==
    { DEFAULT_BASELINE,
      [c \in Categories |-> [correct |-> 0, total |-> 0]],
      [c \in Categories |-> IF c = "network" THEN [correct |-> 0, total |-> 2]
                                              ELSE [correct |-> 2, total |-> 2]] }

ChoiceTexts == {"a", "b"}

\* questions with 2..MaxChoices choices, duplicate texts allowed, answerIndex in range
ShuffleInputs ==
    UNION { { Question(1, "network", ch, ai) : ch \in [1..n -> ChoiceTexts], ai \in 0..(n - 1) }
            : n \in 2..MaxChoices }

callBuildExamQuestions ==
    /\ ret = NoRet
    /\ \E count \in BuildCounts, focus \in Focuses, pc \in Profiles :
         LET stats == [best |-> Null, history |-> <<>>, perCategory |-> pc]
         IN  \E out \in buildExamQuestions(count, focus, stats) :
               /\ ret' = [fn |-> "buildExamQuestions", count |-> count, focus |-> focus,
                          stats |-> Some(stats), q |-> <<>>, out |-> out]
               /\ UNCHANGED <<QUESTIONS, state, ls, view, now, ev, hist>>

callShuffleQuestionChoices ==
    /\ ret = NoRet
    /\ \E q \in ShuffleInputs :
         \E out \in shuffleQuestionChoices(q) :
           /\ ret' = [fn |-> "shuffleQuestionChoices", count |-> 0, focus |-> "all",
                      stats |-> <<>>, q |-> Some(q), out |-> Some(out)]
           /\ UNCHANGED <<QUESTIONS, state, ls, view, now, ev, hist>>

FnInit ==
    /\ QUESTIONS \in Banks
    /\ ls = NoItem
    /\ state = [mode |-> "exam", focus |-> "smart", total |-> 17, questions |-> <<>>,
                index |-> 0, answers |-> <<>>, locked |-> FALSE, stats |-> loadStats(NoItem)]
    /\ view = "empty"
    /\ now = 0
    /\ hist = [maxIndex |-> 0, stats |-> loadStats(NoItem), started |-> 0, abandoned |-> FALSE]
    /\ ev = Event("boot", TRUE)
    /\ ret = NoRet

FnNext ==
    \/ callBuildExamQuestions
    \/ callShuffleQuestionChoices

FnSpec == FnInit /\ [][FnNext]_vars

----------------------------------------------------------------------------
(* Claims about the pure functions, checked under FnSpec *)

Built == ret.fn = "buildExamQuestions"
Shuffled == ret.fn = "shuffleQuestionChoices"

\* number of bank questions of a category
inCategory(cat) == Cardinality({k \in DOMAIN QUESTIONS : QUESTIONS[k].category = cat})

\* C7: the questions buildExamQuestions returns have pairwise-distinct ids
C7_NoDuplicateDraws ==
    Built => \A i, j \in DOMAIN ret.out : ret.out[i].id = ret.out[j].id => i = j

\* the draw loop was cut short by its ceiling and the fill step appended a question
C7_Witness ==
    /\ Built
    /\ ret.count > attemptsLimit
    /\ Len(ret.out) > attemptsLimit

\* C8: buildExamQuestions returns min(max(count, 0), |bank|) questions
C8_QuotaHonored ==
    Built => Len(ret.out) = Min2(Max2(ret.count, 0), Len(QUESTIONS))

\* a count above the draw ceiling was served in full from a bank that holds it
C8_Witness ==
    /\ Built
    /\ ret.count > attemptsLimit
    /\ Len(QUESTIONS) >= ret.count
    /\ Len(ret.out) = ret.count

\* C9: with a forced category that holds at least count questions, every
\* question of the exam is of that category (the pool is not widened)
C9_FocusConstraint ==
    (Built /\ ret.focus \notin {"smart", "all"} /\ inCategory(ret.focus) >= ret.count)
        => \A k \in DOMAIN ret.out : ret.out[k].category = ret.focus

\* a forced category holding exactly count questions, in a bank with another category
C9_Witness ==
    /\ Built
    /\ ret.focus = "hardware"
    /\ ret.count = 2
    /\ inCategory("hardware") = 2
    /\ inCategory("network") = 1
    /\ Len(ret.out) = 2

\* C18: with a forced category that holds fewer than count questions, every
\* exam buildExamQuestions can return contains all the questions of that
\* category, the others only filling what is missing
C18_ForcedRemainder ==
    (Built /\ ret.focus \notin {"smart", "all"} /\ inCategory(ret.focus) < ret.count)
        => \A k \in DOMAIN QUESTIONS :
              QUESTIONS[k].category = ret.focus
                  => \E j \in DOMAIN ret.out : ret.out[j].id = QUESTIONS[k].id

\* number of occurrences of a text among choices
occurrences(choices, text) == Cardinality({k \in DOMAIN choices : choices[k] = text})

----------------------------------------------------------------------------
(* Scorer helpers and the statistics store, called directly over bounded inputs *)

\* largest number of answers handed to the scorer helpers
MaxAnswers == 3
\* largest total of a CategoryStat handed to the weight computation
MaxStatTotal == 4

EmptyObject == <<>>

\* the tally loop of breakdownByCategory, app.js:467-471
RECURSIVE breakdownTally(_, _)
breakdownTally(out, answers) ==
    IF answers = <<>> THEN out
    ELSE LET a == Head(answers)
             o0 == IF a.category \in DOMAIN out
                   THEN out
                   ELSE (a.category :> [correct |-> 0, total |-> 0]) @@ out
             o1 == [o0 EXCEPT ![a.category].total = @ + 1,
                              ![a.category].correct = IF a.correct THEN @ + 1 ELSE @]
         IN  breakdownTally(o1, Tail(answers))

\* mutant: the categories without an answer are not added
breakdownByCategory_NoFill(answers) == breakdownTally(EmptyObject, answers)

\* breakdownByCategory: the tally, then every key of CATEGORIES
breakdownByCategory(answers) ==
    LET out == breakdownTally(EmptyObject, answers)
    IN  [cat \in DOMAIN out \cup Categories |->
            IF cat \in DOMAIN out THEN out[cat] ELSE [correct |-> 0, total |-> 0]]

\* categories an answer can carry: the known keys and one key outside CATEGORIES
AnswerCategories == Categories \cup {"privacy_security"}

\* answer sequences of a session: one answer per question id
AnswerSeqs ==
    UNION { { [k \in 1..n |-> [id |-> k, chosenIndex |-> 0, correct |-> corr[k], category |-> cats[k]]]
              : corr \in [1..n -> BOOLEAN], cats \in [1..n -> AnswerCategories] }
            : n \in 0..MaxAnswers }

callBreakdownByCategory ==
    /\ ret = NoRet
    /\ \E answers \in AnswerSeqs :
         /\ ret' = [fn |-> "breakdownByCategory", count |-> 0, focus |-> "all",
                    stats |-> <<>>, q |-> answers, out |-> Some(breakdownByCategory(answers))]
         /\ UNCHANGED <<QUESTIONS, state, ls, view, now, ev, hist>>

\* values of stats.best: none yet, or a score out of a total
Bests ==
    {Null} \cup { Some([score |-> sc, total |-> t]) : sc \in 0..MaxAnswers, t \in 0..MaxAnswers }

\* the finalization of a session of `total` questions with the given answers,
\* on a profile whose best is `best`
callResultStats ==
    /\ ret = NoRet
    /\ \E answers \in AnswerSeqs, best \in Bests :
         \E total \in Len(answers)..MaxAnswers :
           LET s == [state EXCEPT !.total = total, !.answers = answers, !.stats.best = best]
           IN  /\ ret' = [fn |-> "resultStats", count |-> total, focus |-> s.focus,
                          stats |-> Some(s.stats), q |-> answers, out |-> Some(resultStats(s, now))]
               /\ UNCHANGED <<QUESTIONS, state, ls, view, now, ev, hist>>

\* texts that are not JSON at all
InvalidTexts == {"{best:", "oops"}

\* stored objects: a full profile, and profiles with keys missing
StoredObjects ==
    { [best |-> Some([score |-> 1, total |-> 2]),
       history |-> << [timestamp |-> 0, score |-> 1, total |-> 2, mode |-> "exam", focus |-> "smart"] >>,
       perCategory |-> [c \in Categories |-> [correct |-> 1, total |-> 2]]],
      [best |-> Some([score |-> 1, total |-> 2])],
      [history |-> <<>>, perCategory |-> [c \in Categories |-> [correct |-> 0, total |-> 0]]] }

\* what the store can hold when loadStats runs
RawItems ==
    {NoItem}
      \cup { <<"text", t>> : t \in {"", "null"} \cup InvalidTexts \cup PrimitiveTexts }
      \cup { JSONstringify(o) : o \in StoredObjects }

callLoadStats ==
    /\ ret = NoRet
    /\ \E raw \in RawItems :
         /\ ret' = [fn |-> "loadStats", count |-> 0, focus |-> "all",
                    stats |-> <<>>, q |-> raw, out |-> Some(loadStatsCall(raw))]
         /\ UNCHANGED <<QUESTIONS, state, ls, view, now, ev, hist>>

\* two CategoryStats of one total, each with correct <= total
StatPairs ==
    UNION { { [c \in Categories |-> [correct |-> IF c = "network" THEN c1 ELSE c2, total |-> t]]
              : c1 \in 0..t, c2 \in 0..t }
            : t \in 0..MaxStatTotal }

callCategoryWeights ==
    /\ ret = NoRet
    /\ \E perCategory \in StatPairs :
         /\ ret' = [fn |-> "categoryWeights", count |-> 0, focus |-> "smart",
                    stats |-> Some(perCategory), q |-> <<>>,
                    out |-> Some(categoryWeights([perCategory |-> perCategory]))]
         /\ UNCHANGED <<QUESTIONS, state, ls, view, now, ev, hist>>

StatsNext ==
    \/ callBreakdownByCategory
    \/ callResultStats
    \/ callLoadStats
    \/ callCategoryWeights

StatsSpec == Init /\ [][StatsNext]_vars

----------------------------------------------------------------------------
(* Claims about the scorer helpers and the store, checked under StatsSpec *)


RECURSIVE sumTotals(_, _)
sumTotals(b, cats) ==
    IF cats = {} THEN 0
    ELSE LET c == CHOOSE x \in cats : TRUE IN b[c].total + sumTotals(b, cats \ {c})

\* C11: the breakdown has an entry for every known category, each entry counts
\* this session's answers of its category and the correct ones among them, so
\* correct <= total, and the totals sum to the number of answers
C11_BreakdownComplete ==
    ret.fn = "breakdownByCategory" =>
        LET b == ret.out[1]
            answers == ret.q
        IN  /\ Categories \subseteq DOMAIN b
            /\ \A cat \in DOMAIN b :
                  /\ b[cat].total = answersIn(answers, cat)
                  /\ b[cat].correct = correctIn(answers, cat)
                  /\ b[cat].correct <= b[cat].total
            /\ sumTotals(b, DOMAIN b) = Len(answers)

\* two answers of one category, one of them correct, and a category without answer
C11_Witness ==
    /\ ret.fn = "breakdownByCategory"
    /\ Len(ret.q) = 2
    /\ ret.out[1]["network"] = [correct |-> 1, total |-> 2]
    /\ ret.out[1]["hardware"] = [correct |-> 0, total |-> 0]

\* C12: at finalization with result (score, total), best becomes {score, total}
\* exactly when it was absent, or score is higher, or score is equal and total
\* is larger; otherwise best stays as it was
C12_BestUpdate ==
    ret.fn = "resultStats" =>
        LET old == ret.stats[1].best
            new == ret.out[1].best
            att == Last(ret.out[1].history)
            better == \/ old = Null
                      \/ att.score > old[1].score
                      \/ (att.score = old[1].score /\ att.total > old[1].total)
        IN  /\ att.score = correctCount(ret.q) /\ att.total = ret.count
            /\ better => new = Some([score |-> att.score, total |-> att.total])
            /\ ~better => new = old

\* an equal score on a longer exam replaced the best
C12_Witness ==
    /\ ret.fn = "resultStats"
    /\ ret.stats[1].best = Some([score |-> 1, total |-> 1])
    /\ Last(ret.out[1].history).score = 1
    /\ Last(ret.out[1].history).total = 2
    /\ ret.out[1].best = Some([score |-> 1, total |-> 2])

\* C15: when the item is absent, or is text that is invalid JSON, JSON null or
\* a JSON primitive, loadStats returns the seeded default; and no call of
\* loadStats raises an error
C15_CorruptLoad ==
    ret.fn = "loadStats" =>
        /\ ret.out[1][1] = "return"
        /\ (ret.q = NoItem \/ ret.q[1] = "text") => ret.out[1][2] = DefaultStats

\* the text of a JSON number was loaded as the seeded default
C15_Witness ==
    /\ ret.fn = "loadStats"
    /\ ret.q # NoItem
    /\ ret.q[1] = "text"
    /\ ret.q[2] = "5"
    /\ ret.out[1][1] = "return"
    /\ ret.out[1][2] = DefaultStats

\* a >= b, for fractions of positive denominator
FracGeq(a, b) == a.num * b.den >= b.num * a.den

\* C16: of two CategoryStats with the same total > 0, the one with fewer
\* correct has a weight at least as large; every weight lies in [0.6, 1.6];
\* a stat with total 0 weighs 1.8 - 0.5
C16_WeaknessMonotone ==
    ret.fn = "categoryWeights" =>
        LET p == ret.stats[1]
            w == ret.out[1]
        IN  /\ \A a \in DOMAIN p, b \in DOMAIN p :
                  (p[a].total > 0 /\ p[a].total = p[b].total /\ p[a].correct <= p[b].correct)
                      => FracGeq(w[a], w[b])
            /\ \A a \in DOMAIN p :
                  /\ FracGeq(w[a], Frac(6, 10)) /\ FracGeq(Frac(16, 10), w[a])
                  /\ p[a].total = 0 => (FracGeq(w[a], Frac(13, 10)) /\ FracGeq(Frac(13, 10), w[a]))

\* same total, fewer correct, strictly larger weight
C16_Witness ==
    /\ ret.fn = "categoryWeights"
    /\ ret.stats[1]["network"] = [correct |-> 1, total |-> 4]
    /\ ret.stats[1]["hardware"] = [correct |-> 3, total |-> 4]
    /\ ~FracGeq(ret.out[1]["hardware"], ret.out[1]["network"])

====
